---- MODULE Spec2Model ----
(***************************************************************************)
(* Model of tugas4_dev_restaurant/src/main.rs: the Foods store, the        *)
(* line-oriented codec (parse_food, parse_foods, save_foods) and the       *)
(* command dispatcher run().                                               *)
(*                                                                         *)
(* Text is a sequence of one-character strings.  i64 and i32 are modelled  *)
(* as two's-complement integers of I64Bits and I32Bits bits.               *)
(***************************************************************************)
EXTENDS Integers, Sequences, FiniteSets, TLC

\* ------------------------------------------------------------------ bounds
I64Bits == 4
I32Bits == 3
MaxLines == 2
MaxOps == 1

I64_MAX == 2^(I64Bits - 1) - 1
I64_MIN == -(2^(I64Bits - 1))
I32_MAX == 2^(I32Bits - 1) - 1
I32_MIN == -(2^(I32Bits - 1))

\* ------------------------------------------------------------- text basics
NL == "\n"
COMMA == ","
DigitChars == <<"0", "1", "2", "3", "4", "5", "6", "7", "8", "9">>

IsDigit(c) == \E d \in 1..10 : DigitChars[d] = c
DigitVal(c) == (CHOOSE d \in 1..10 : DigitChars[d] = c) - 1

RECURSIVE DigitsVal(_)
DigitsVal(ds) ==
    IF ds = <<>> THEN 0
    ELSE DigitsVal(SubSeq(ds, 1, Len(ds) - 1)) * 10 + DigitVal(ds[Len(ds)])

\* str::split(sep): the pieces between separators; "" gives one empty piece.
RECURSIVE Split(_, _)
Split(s, sep) ==
    IF \A i \in 1..Len(s) : s[i] # sep THEN <<s>>
    ELSE LET i == CHOOSE k \in 1..Len(s) :
                      s[k] = sep /\ \A j \in 1..(k - 1) : s[j] # sep
         IN  <<SubSeq(s, 1, i - 1)>> \o Split(SubSeq(s, i + 1, Len(s)), sep)

\* {}-formatting of a signed integer: decimal, '-' for negatives.
RECURSIVE FmtNat(_)
FmtNat(n) ==
    IF n < 10 THEN <<DigitChars[n + 1]>>
    ELSE FmtNat(n \div 10) \o <<DigitChars[(n % 10) + 1]>>

FmtInt(n) == IF n < 0 THEN <<"-">> \o FmtNat(-n) ELSE FmtNat(n)

\* iN::from_str_radix(src, 10) for a signed type with range lo..hi:
\* optional sign, at least one digit, digits only, value within the range.
from_str_radix(src, lo, hi) ==
    IF src = <<>> THEN [ok |-> FALSE]
    ELSE LET signed == src[1] \in {"+", "-"}
             digits == IF signed THEN SubSeq(src, 2, Len(src)) ELSE src
             neg    == src[1] = "-"
         IN  IF digits = <<>> THEN [ok |-> FALSE]
             ELSE IF \E i \in 1..Len(digits) : ~IsDigit(digits[i])
                  THEN [ok |-> FALSE]
             ELSE LET v == IF neg THEN -DigitsVal(digits) ELSE DigitsVal(digits)
                  IN  IF v < lo \/ v > hi THEN [ok |-> FALSE]
                      ELSE [ok |-> TRUE, val |-> v]

\* ------------------------------------------------------------------- Foods
Food(id, name, stock, price) ==
    [id |-> id, name |-> name, stock |-> stock, price |-> price]

\* Foods::new: the empty HashMap.
new == <<>>

\* HashMap::insert: the value under key k is replaced or created.
insert(inner, k, v) ==
    [x \in (DOMAIN inner) \cup {k} |-> IF x = k THEN v ELSE inner[x]]

\* Foods::add
add(inner, food) == insert(inner, food.id, food)

\* Foods::edit
edit(inner, id, name, stock, price) ==
    insert(inner, id, Food(id, name, stock, price))

\* Foods::remove: the map without the key, and the removed value if any.
remove_clear(inner, id) ==
    IF id \in DOMAIN inner
    THEN [inner |-> [x \in (DOMAIN inner) \ {id} |-> inner[x]],
          ret |-> <<inner[id]>>]
    ELSE [inner |-> <<>>, ret |-> <<>>]
remove(inner, id) ==
    IF id \in DOMAIN inner
    THEN [inner |-> [x \in (DOMAIN inner) \ {id} |-> inner[x]],
          ret |-> <<inner[id]>>]
    ELSE [inner |-> inner, ret |-> <<>>]

\* slice::sort on integers (insertion into a sorted prefix).
RECURSIVE sort(_)
sort(s) ==
    IF Len(s) <= 1 THEN s
    ELSE LET rest == sort(SubSeq(s, 1, Len(s) - 1))
             x    == s[Len(s)]
             k    == Cardinality({i \in 1..Len(rest) : rest[i] <= x})
         IN  SubSeq(rest, 1, k) \o <<x>> \o SubSeq(rest, k + 1, Len(rest))

\* slice::sort_by_key(|fd| fd.id): stable, ascending by the id field.
RECURSIVE sort_by_key(_)
sort_by_key(s) ==
    IF Len(s) <= 1 THEN s
    ELSE LET rest == sort_by_key(SubSeq(s, 1, Len(s) - 1))
             x    == s[Len(s)]
             k    == Cardinality({i \in 1..Len(rest) : rest[i].id <= x.id})
         IN  SubSeq(rest, 1, k) \o <<x>> \o SubSeq(rest, k + 1, Len(rest))

\* The orders in which a HashMap may hand out its keys.
Orders(inner) ==
    {o \in [1..Cardinality(DOMAIN inner) -> DOMAIN inner] :
        \A i, j \in DOMAIN o : i # j => o[i] # o[j]}

\* Foods::next_id: keys in iteration order `order`, sorted, last one + 1.
\* id + 1 on i64::MAX panics with overflow checks and wraps without.
next_id(inner, order, checked) ==
    LET ids == sort(order)
    IN  IF ids = <<>> THEN [panic |-> FALSE, id |-> 1]
        ELSE LET id == ids[Len(ids)]
             IN  IF id = I64_MAX
                 THEN IF checked THEN [panic |-> TRUE, id |-> 0]
                      ELSE [panic |-> FALSE, id |-> I64_MIN]
                 ELSE [panic |-> FALSE, id |-> id + 1]

\* Foods::into_vec: drain in iteration order `order`, then sort by id.
into_vec_skipfirst(inner, order) ==
    sort_by_key([i \in 1..(Len(order) - 1) |-> inner[order[i + 1]]])
into_vec_unsorted(inner, order) == [i \in 1..Len(order) |-> inner[order[i]]]
into_vec(inner, order) ==
    sort_by_key([i \in 1..Len(order) |-> inner[order[i]]])

\* char::to_lowercase on the letters the inputs use.
to_lowercase(str) ==
    [i \in 1..Len(str) |->
        CASE str[i] = "A" -> "a"
          [] str[i] = "B" -> "b"
          [] str[i] = "O" -> "o"
          [] str[i] = "Z" -> "z"
          [] OTHER -> str[i]]

\* str::contains
contains(str, pat) ==
    \E i \in 0..(Len(str) - Len(pat)) : SubSeq(str, i + 1, i + Len(pat)) = pat

\* Foods::search: the values, in iteration order, whose lower-cased name
\* contains the lower-cased query.
search(inner, name, order) ==
    SelectSeq([i \in 1..Len(order) |-> inner[order[i]]],
              LAMBDA food : contains(to_lowercase(food.name), to_lowercase(name)))

\* ------------------------------------------------------------------- codec
\* parse_food: split on ',', then id, name, stock, price from fields 0..3.
\* A ParseIntError of any of the three numbers converts to InvalidId.
parse_food(food) ==
    LET fields == Split(food, COMMA)
        id     == from_str_radix(fields[1], I64_MIN, I64_MAX)
    IN  IF ~id.ok THEN [ok |-> FALSE, err |-> "InvalidId"]
        ELSE IF Len(fields) < 2 \/ fields[2] = <<>>
             THEN [ok |-> FALSE, err |-> "MissingField"]
        ELSE IF Len(fields) < 3 THEN [ok |-> FALSE, err |-> "EmptyRecord"]
        ELSE LET stock == from_str_radix(fields[3], I32_MIN, I32_MAX)
             IN  IF ~stock.ok THEN [ok |-> FALSE, err |-> "InvalidId"]
                 ELSE IF Len(fields) < 4 THEN [ok |-> FALSE, err |-> "EmptyRecord"]
                 ELSE LET price == from_str_radix(fields[4], I32_MIN, I32_MAX)
                      IN  IF ~price.ok THEN [ok |-> FALSE, err |-> "InvalidId"]
                          ELSE [ok |-> TRUE,
                                food |-> Food(id.val, fields[2], stock.val, price.val)]

\* The loop of parse_foods over lines[num+1..], num counting from 0.
RECURSIVE parse_loop(_, _, _, _, _)
parse_loop(lines, num, fds, out, verbose) ==
    IF num >= Len(lines) THEN [fds |-> fds, out |-> out]
    ELSE LET food == lines[num + 1]
         IN  IF food = <<>> THEN parse_loop(lines, num + 1, fds, out, verbose)
             ELSE LET r == parse_food(food)
                  IN  IF r.ok
                      THEN parse_loop(lines, num + 1, add(fds, r.food), out, verbose)
                      ELSE parse_loop(lines, num + 1, fds,
                             IF verbose
                             THEN Append(out, [num |-> num + 1, err |-> r.err,
                                               line |-> food])
                             ELSE out,
                             verbose)

\* The same loop, giving up at the first line that fails.
RECURSIVE parse_loop_abort(_, _, _, _, _)
parse_loop_abort(lines, num, fds, out, verbose) ==
    IF num >= Len(lines) THEN [fds |-> fds, out |-> out]
    ELSE LET food == lines[num + 1]
         IN  IF food = <<>> THEN parse_loop_abort(lines, num + 1, fds, out, verbose)
             ELSE LET r == parse_food(food)
                  IN  IF r.ok
                      THEN parse_loop_abort(lines, num + 1, add(fds, r.food), out, verbose)
                      ELSE [fds |-> fds,
                            out |-> IF verbose
                                    THEN Append(out, [num |-> num + 1, err |-> r.err,
                                                      line |-> food])
                                    ELSE out]

\* parse_foods: the store built from the text and the diagnostics printed.
parse_foods_abort(foods, verbose) ==
    parse_loop_abort(Split(foods, NL), 0, new, <<>>, verbose)
parse_foods(foods, verbose) ==
    parse_loop(Split(foods, NL), 0, new, <<>>, verbose)

\* b"id,name,stock,price\n"
HEADER ==
    <<"i", "d", ",", "n", "a", "m", "e", ",", "s", "t", "o", "c", "k", ",",
      "p", "r", "i", "c", "e", "\n">>

\* format!("{},{},{},{}\n", food.id, food.name, food.stock, food.price)
format_line_swapped(food) ==
    FmtInt(food.id) \o <<COMMA>> \o food.name \o <<COMMA>>
        \o FmtInt(food.price) \o <<COMMA>> \o FmtInt(food.stock) \o <<NL>>
format_line(food) ==
    FmtInt(food.id) \o <<COMMA>> \o food.name \o <<COMMA>>
        \o FmtInt(food.stock) \o <<COMMA>> \o FmtInt(food.price) \o <<NL>>

RECURSIVE write_lines(_)
write_lines(vec) ==
    IF vec = <<>> THEN <<>>
    ELSE format_line(vec[1]) \o write_lines(SubSeq(vec, 2, Len(vec)))

\* save_foods without I/O failure: everything written to the truncated file.
save_foods(inner, order) == HEADER \o write_lines(into_vec(inner, order))

\* ----------------------------------------------------------- file primitives
\* OpenOptions::truncate(true): the file is emptied when it is opened.
truncate_keep(f) == f
truncate(f) == <<>>

\* File::write through a handle at offset pos: the bytes replace what lies
\* there and extend the file; a gap left by a truncation reads as NUL.
write_at(f, pos, bytes) ==
    LET n == IF Len(f) > pos + Len(bytes) THEN Len(f) ELSE pos + Len(bytes)
    IN  [i \in 1..n |->
            IF i > pos /\ i <= pos + Len(bytes) THEN bytes[i - pos]
            ELSE IF i <= Len(f) THEN f[i]
            ELSE "NUL"]

\* Drop of a File: its handle leaves the set of open handles.
release_leak(handles, h) == handles
release(handles, h) == handles \ {h}

\* ------------------------------------------------------------------ inputs
RECURSIVE JoinWith(_, _)
JoinWith(parts, sep) ==
    IF parts = <<>> THEN <<>>
    ELSE IF Len(parts) = 1 THEN parts[1]
    ELSE parts[1] \o <<sep>> \o JoinWith(SubSeq(parts, 2, Len(parts)), sep)

\* Field lists of the lines a data file is drawn from: records, records the
\* parser rejects, the header, an empty line.
LineFields ==
    { << <<"1">>, <<"a">>, <<"1">>, <<"2">> >>,
      << <<"2">>, <<"B", "o">>, <<"0">>, <<"3">> >>,
      << <<"1">>, <<"c">>, <<"-", "1">>, <<"0">> >>,
      << <<"+", "3">>, <<"a", " ", "b">>, <<"+", "1">>, <<"0", "1">> >>,
      << <<"-", "2">>, <<"a">>, <<"1">>, <<"1">> >>,
      << FmtInt(I64_MAX), <<"a">>, <<"1">>, <<"1">> >>,
      << FmtInt(I64_MAX + 1), <<"a">>, <<"1">>, <<"1">> >>,
      << FmtInt(I64_MIN), <<"z">>, FmtInt(I32_MIN), FmtInt(I32_MAX) >>,
      << <<"1">>, <<"a">>, FmtInt(I32_MAX + 1), <<"1">> >>,
      << <<"x">>, <<"a">>, <<"1">>, <<"1">> >>,
      << <<"4">>, <<>>, <<"1">>, <<"1">> >>,
      << <<"5">> >>,
      << <<"5">>, <<"a">> >>,
      << <<"5">>, <<"a">>, <<"1">> >>,
      << <<"6">>, <<"a">>, <<"1">>, <<"1">>, <<"9">> >>,
      << <<"1">>, <<"b">>, <<"x">>, <<"0">>, <<"1">> >>,
      << <<"-">>, <<"a">>, <<"1">>, <<"1">> >>,
      << <<"1">>, <<"a">>, <<"1">>, <<"1", "\r">> >>,
      << <<"i", "d">>, <<"n", "a", "m", "e">>, <<"s", "t", "o", "c", "k">>,
         <<"p", "r", "i", "c", "e">> >>,
      << >> }

Lines == {JoinWith(f, COMMA) : f \in LineFields}

\* Up to MaxLines lines, the last one with or without its newline.
Texts ==
    UNION { { JoinWith(ls, NL) \o (IF nl /\ n > 0 THEN <<NL>> ELSE <<>>) :
                ls \in [1..n -> Lines], nl \in BOOLEAN } : n \in 0..MaxLines }

\* Names, numbers and ids a command line may carry.  A name is any string:
\* it may be empty and may hold a comma or a newline.
CmdNames ==
    { <<"a">>, <<>>, <<"b", ",", "x">>,
      <<"x", ",", "0", ",", "0", "\n", "1", ",", "y">> }
CmdNumbers == { <<0, 1>>, <<-1, 3>> }
CmdIds == {-1, 1, I64_MAX}

\* ------------------------------------------------------------------- state
VARIABLES
    input,      \* codec: the text handed to parse_foods
    hverbose,   \* codec: the verbose flag
    phase,      \* codec: "text", "parsed", "saved", "reparsed", "panicked"
    store,      \* codec: the Foods map in hand
    parsed,     \* codec: the map as parse_foods returned it
    diag,       \* codec: the diagnostics parse_foods printed
    lastop,     \* codec: the last store operation, its argument and result
    nops,       \* codec: store operations applied so far
    written,    \* codec: the text save_foods wrote
    reparsed,   \* codec: the map parsed back from `written`
    file,       \* the content of the data file
    file0,      \* the content of the data file before any invocation
    pc,         \* per invocation: where run() stands
    cmd,        \* per invocation: Opt (cmd and verbose)
    open,       \* per invocation: the File handles open now
    pos,        \* per invocation: the offset of the handle save_foods writes to
    buffer,     \* per invocation: load_foods' buffer
    fds,        \* per invocation: the Foods map of run()
    loaded,     \* per invocation: the map as load_foods returned it
    target,     \* per invocation: the id the command wrote or removed
    queue,      \* per invocation: the records save_foods has still to write
    result,     \* per invocation: "none", "ok", "io_error", "panic"
    stdout,     \* per invocation: what was printed
    events,     \* load and save calls and outcomes, in the order they happened
    writer      \* the invocation whose write reached the file last, 0 if none

hvars == <<input, hverbose, phase, store, parsed, diag, lastop, nops, written,
           reparsed>>
pvars == <<file, file0, pc, cmd, open, pos, buffer, fds, loaded, target, queue,
           result, stdout, events, writer>>
vars == <<hvars, pvars>>

\* No invocation of run(): the codec and the store are exercised alone.
NoRun ==
    /\ file = <<>> /\ file0 = <<>>
    /\ pc = <<>> /\ cmd = <<>> /\ open = <<>> /\ pos = <<>> /\ buffer = <<>>
    /\ fds = <<>> /\ loaded = <<>> /\ target = <<>> /\ queue = <<>>
    /\ result = <<>> /\ stdout = <<>> /\ events = <<>> /\ writer = 0

NoOp == [kind |-> "none"]

\* ---------------------------------------------------- codec: parse and save
InitCodec ==
    /\ input \in Texts
    /\ hverbose \in BOOLEAN
    /\ phase = "text"
    /\ store = new
    /\ parsed = new
    /\ diag = <<>>
    /\ lastop = NoOp
    /\ nops = 0
    /\ written = <<>>
    /\ reparsed = new
    /\ NoRun

CodecParse ==
    /\ phase = "text"
    /\ LET r == parse_foods(input, hverbose)
       IN  /\ store' = r.fds
           /\ parsed' = r.fds
           /\ diag' = r.out
    /\ phase' = "parsed"
    /\ UNCHANGED pvars
    /\ UNCHANGED <<input, hverbose, lastop, nops, written, reparsed>>

CodecSave ==
    /\ phase = "parsed"
    /\ \E order \in Orders(store) : written' = save_foods(store, order)
    /\ phase' = "saved"
    /\ UNCHANGED pvars
    /\ UNCHANGED <<input, hverbose, store, parsed, diag, lastop, nops, reparsed>>

CodecReparse ==
    /\ phase = "saved"
    /\ reparsed' = parse_foods(written, hverbose).fds
    /\ phase' = "reparsed"
    /\ UNCHANGED pvars
    /\ UNCHANGED <<input, hverbose, store, parsed, diag, lastop, nops, written>>

NextCodec == CodecParse \/ CodecSave \/ CodecReparse

SpecCodec == InitCodec /\ [][NextCodec]_vars

\* ------------------------------------------------- store: add, edit, remove
InitStore ==
    /\ \E t \in Texts : store = parse_foods(t, FALSE).fds
    /\ input = <<>>
    /\ hverbose = FALSE
    /\ phase = "parsed"
    /\ parsed = store
    /\ diag = <<>>
    /\ lastop = NoOp
    /\ nops = 0
    /\ written = <<>>
    /\ reparsed = new
    /\ NoRun

\* What Command::Add does to the store: next_id, then add.
StoreAdd ==
    /\ phase = "parsed" /\ nops < MaxOps
    /\ \E name \in CmdNames, n \in CmdNumbers, checked \in BOOLEAN,
          order \in Orders(store) :
          LET nid == next_id(store, order, checked)
          IN  IF nid.panic
              THEN /\ phase' = "panicked"
                   /\ lastop' = [kind |-> "panic", before |-> store]
                   /\ store' = store
              ELSE /\ phase' = phase
                   /\ lastop' = [kind |-> "add", id |-> nid.id, before |-> store]
                   /\ store' = add(store, Food(nid.id, name, n[1], n[2]))
    /\ nops' = nops + 1
    /\ UNCHANGED pvars
    /\ UNCHANGED <<input, hverbose, parsed, diag, written, reparsed>>

StoreEdit ==
    /\ phase = "parsed" /\ nops < MaxOps
    /\ \E id \in CmdIds, name \in CmdNames, n \in CmdNumbers :
          /\ store' = edit(store, id, name, n[1], n[2])
          /\ lastop' = [kind |-> "edit", id |-> id, before |-> store]
    /\ nops' = nops + 1
    /\ UNCHANGED pvars
    /\ UNCHANGED <<input, hverbose, phase, parsed, diag, written, reparsed>>

StoreRemove ==
    /\ phase = "parsed" /\ nops < MaxOps
    /\ \E id \in CmdIds :
          LET r == remove(store, id)
          IN  /\ store' = r.inner
              /\ lastop' = [kind |-> "remove", id |-> id, before |-> store,
                            ret |-> r.ret]
    /\ nops' = nops + 1
    /\ UNCHANGED pvars
    /\ UNCHANGED <<input, hverbose, phase, parsed, diag, written, reparsed>>

NextStore == StoreAdd \/ StoreEdit \/ StoreRemove \/ CodecSave

SpecStore == InitStore /\ [][NextStore]_vars

\* ------------------------------------------------------------------- run()
Cmd(kind, id, name, stock, price, query, verbose) ==
    [kind |-> kind, id |-> id, name |-> name, stock |-> stock, price |-> price,
     query |-> query, verbose |-> verbose]

Queries == { <<"b">>, <<"Z", "z">> }

\* Opt as the command line gives it: one of the five subcommands, and -v.
CommandsWith(v) ==
    {Cmd("Add", 0, name, n[1], n[2], <<>>, v) :
        name \in CmdNames, n \in CmdNumbers}
    \cup {Cmd("Edit", id, name, n[1], n[2], <<>>, v) :
        id \in CmdIds, name \in CmdNames, n \in CmdNumbers}
    \cup {Cmd("Remove", id, <<>>, 0, 0, <<>>, v) : id \in CmdIds}
    \cup {Cmd("List", 0, <<>>, 0, 0, <<>>, v)}
    \cup {Cmd("Search", 0, <<>>, 0, 0, q, v) : q \in Queries}

Commands == CommandsWith(FALSE) \cup CommandsWith(TRUE)

\* Lines of the data files run() starts from.
FileLineFields ==
    { << <<"1">>, <<"a">>, <<"1">>, <<"2">> >>,
      << <<"2">>, <<"B", "o">>, <<"0">>, <<"3">> >>,
      << <<"-", "2">>, <<"a">>, <<"1">>, <<"1">> >>,
      << FmtInt(I64_MAX), <<"a">>, <<"1">>, <<"1">> >>,
      << FmtInt(I64_MIN), <<"z">>, FmtInt(I32_MIN), FmtInt(I32_MAX) >>,
      << <<"x">>, <<"a">>, <<"1">>, <<"1">> >>,
      << <<"1">>, <<>>, <<"0">>, <<"1">> >>,
      << <<"1">>, <<"b">>, <<"x">>, <<"0">>, <<"1">> >> }

\* The header line, then up to MaxLines lines, each with its newline.
Files ==
    UNION { { HEADER \o JoinWith(ls, NL) \o (IF n > 0 THEN <<NL>> ELSE <<>>) :
                ls \in [1..n -> {JoinWith(f, COMMA) : f \in FileLineFields}] } :
            n \in 0..MaxLines }

Event(p, ev) == [p |-> p, ev |-> ev]

InitRun(procs, files) ==
    /\ file \in files
    /\ file0 = file
    /\ pc = [p \in procs |-> "idle"]
    /\ cmd = [p \in procs |-> Cmd("none", 0, <<>>, 0, 0, <<>>, FALSE)]
    /\ open = [p \in procs |-> {}]
    /\ pos = [p \in procs |-> 0]
    /\ buffer = [p \in procs |-> <<>>]
    /\ fds = [p \in procs |-> new]
    /\ loaded = [p \in procs |-> new]
    /\ target = [p \in procs |-> 0]
    /\ queue = [p \in procs |-> <<>>]
    /\ result = [p \in procs |-> "none"]
    /\ stdout = [p \in procs |-> <<>>]
    /\ events = <<>>
    /\ writer = 0
    /\ input = <<>> /\ hverbose = FALSE /\ phase = "off" /\ store = new
    /\ parsed = new /\ diag = <<>> /\ lastop = NoOp /\ nops = 0
    /\ written = <<>> /\ reparsed = new

\* main: Opt::from_args, then run(opt).
Start(p, cmds) ==
    /\ pc[p] = "idle"
    /\ \E c \in cmds : cmd' = [cmd EXCEPT ![p] = c]
    /\ pc' = [pc EXCEPT ![p] = "load_open"]
    /\ UNCHANGED <<file, file0, writer, open, pos, buffer, fds, loaded, target, queue,
                   result, stdout, events>>
    /\ UNCHANGED hvars

\* run returned Err: main prints the error.
Fail(p, opened) ==
    /\ pc' = [pc EXCEPT ![p] = "done"]
    /\ result' = [result EXCEPT ![p] = "io_error"]
    /\ stdout' = [stdout EXCEPT ![p] = Append(@, "An error occured")]
    /\ open' = [open EXCEPT ![p] = opened]

\* load_foods: File::open(file_name)?
LoadOpen(p, ok) ==
    /\ pc[p] = "load_open"
    /\ IF ok
       THEN /\ open' = [open EXCEPT ![p] = @ \cup {"load"}]
            /\ pc' = [pc EXCEPT ![p] = "load_read"]
            /\ events' = Append(events, Event(p, "load_call"))
            /\ UNCHANGED <<result, stdout>>
       ELSE /\ Fail(p, open[p])
            /\ events' = events \o <<Event(p, "load_call"), Event(p, "load_err")>>
    /\ UNCHANGED <<file, file0, writer, cmd, pos, buffer, fds, loaded, target, queue>>
    /\ UNCHANGED hvars

\* load_foods: file.read_to_string(&mut buffer)?
LoadRead(p, ok) ==
    /\ pc[p] = "load_read"
    /\ IF ok
       THEN /\ buffer' = [buffer EXCEPT ![p] = file]
            /\ pc' = [pc EXCEPT ![p] = "load_parse"]
            /\ UNCHANGED <<open, result, stdout, events>>
       ELSE /\ Fail(p, release(open[p], "load"))
            /\ events' = Append(events, Event(p, "load_err"))
            /\ UNCHANGED buffer
    /\ UNCHANGED <<file, file0, writer, cmd, pos, fds, loaded, target, queue>>
    /\ UNCHANGED hvars

\* load_foods: Ok(parse_foods(buffer, verbose)); the File is dropped on return.
LoadParse(p) ==
    /\ pc[p] = "load_parse"
    /\ LET r == parse_foods(buffer[p], cmd[p].verbose)
       IN  /\ fds' = [fds EXCEPT ![p] = r.fds]
           /\ loaded' = [loaded EXCEPT ![p] = r.fds]
           /\ stdout' = [stdout EXCEPT ![p] = @ \o r.out]
    /\ buffer' = [buffer EXCEPT ![p] = <<>>]
    /\ open' = [open EXCEPT ![p] = release(@, "load")]
    /\ events' = Append(events, Event(p, "load_ok"))
    /\ pc' = [pc EXCEPT ![p] = "operate"]
    /\ UNCHANGED <<file, file0, writer, cmd, pos, target, queue, result>>
    /\ UNCHANGED hvars

\* Command::Add: next_id, add.  The overflow of id + 1 panics in a build with
\* overflow checks and wraps in one without.
OpAdd(p) ==
    /\ pc[p] = "operate" /\ cmd[p].kind = "Add"
    /\ \E order \in Orders(fds[p]), checked \in BOOLEAN :
          LET nid == next_id(fds[p], order, checked)
          IN  IF nid.panic
              THEN /\ pc' = [pc EXCEPT ![p] = "done"]
                   /\ result' = [result EXCEPT ![p] = "panic"]
                   /\ UNCHANGED <<fds, target>>
              ELSE /\ fds' = [fds EXCEPT ![p] =
                                add(@, Food(nid.id, cmd[p].name, cmd[p].stock,
                                            cmd[p].price))]
                   /\ target' = [target EXCEPT ![p] = nid.id]
                   /\ pc' = [pc EXCEPT ![p] = "save_open"]
                   /\ UNCHANGED result
    /\ UNCHANGED <<file, file0, writer, cmd, open, pos, buffer, loaded, queue, stdout,
                   events>>
    /\ UNCHANGED hvars

\* Command::Edit
OpEdit(p) ==
    /\ pc[p] = "operate" /\ cmd[p].kind = "Edit"
    /\ fds' = [fds EXCEPT ![p] =
                 edit(@, cmd[p].id, cmd[p].name, cmd[p].stock, cmd[p].price)]
    /\ target' = [target EXCEPT ![p] = cmd[p].id]
    /\ pc' = [pc EXCEPT ![p] = "save_open"]
    /\ UNCHANGED <<file, file0, writer, cmd, open, pos, buffer, loaded, queue, result,
                   stdout, events>>
    /\ UNCHANGED hvars

\* Command::Remove
OpRemove(p) ==
    /\ pc[p] = "operate" /\ cmd[p].kind = "Remove"
    /\ fds' = [fds EXCEPT ![p] = remove(@, cmd[p].id).inner]
    /\ target' = [target EXCEPT ![p] = cmd[p].id]
    /\ pc' = [pc EXCEPT ![p] = "save_open"]
    /\ UNCHANGED <<file, file0, writer, cmd, open, pos, buffer, loaded, queue, result,
                   stdout, events>>
    /\ UNCHANGED hvars

\* Command::List
OpList(p) ==
    /\ pc[p] = "operate" /\ cmd[p].kind = "List"
    /\ \E order \in Orders(fds[p]) :
          stdout' = [stdout EXCEPT ![p] = @ \o into_vec(fds[p], order)]
    /\ pc' = [pc EXCEPT ![p] = "done"]
    /\ result' = [result EXCEPT ![p] = "ok"]
    /\ UNCHANGED <<file, file0, writer, cmd, open, pos, buffer, fds, loaded, target,
                   queue, events>>
    /\ UNCHANGED hvars

\* Command::Search
OpSearch(p) ==
    /\ pc[p] = "operate" /\ cmd[p].kind = "Search"
    /\ \E order \in Orders(fds[p]) :
          LET results == search(fds[p], cmd[p].query, order)
          IN  stdout' = [stdout EXCEPT ![p] =
                            IF results = <<>> THEN Append(@, "No records found")
                            ELSE @ \o results]
    /\ pc' = [pc EXCEPT ![p] = "done"]
    /\ result' = [result EXCEPT ![p] = "ok"]
    /\ UNCHANGED <<file, file0, writer, cmd, open, pos, buffer, fds, loaded, target,
                   queue, events>>
    /\ UNCHANGED hvars

\* save_foods: OpenOptions::new().write(true).truncate(true).open(file_name)?
SaveOpen(p, ok) ==
    /\ pc[p] = "save_open"
    /\ IF ok
       THEN /\ file' = truncate(file)
            /\ open' = [open EXCEPT ![p] = @ \cup {"save"}]
            /\ pos' = [pos EXCEPT ![p] = 0]
            /\ pc' = [pc EXCEPT ![p] = "save_header"]
            /\ events' = events \o <<Event(p, "save_call"), Event(p, "truncate")>>
            /\ UNCHANGED <<result, stdout>>
       ELSE /\ Fail(p, open[p])
            /\ events' = events \o <<Event(p, "save_call"), Event(p, "save_err")>>
            /\ UNCHANGED <<file, pos>>
    /\ UNCHANGED <<file0, writer, cmd, buffer, fds, loaded, target, queue>>
    /\ UNCHANGED hvars

\* save_foods: file.write(b"id,name,stock,price\n")?, then foods.into_vec()
SaveHeader(p, ok) ==
    /\ pc[p] = "save_header"
    /\ IF ok
       THEN /\ writer' = p
            /\ file' = write_at(file, pos[p], HEADER)
            /\ pos' = [pos EXCEPT ![p] = @ + Len(HEADER)]
            /\ \E order \in Orders(fds[p]) :
                  queue' = [queue EXCEPT ![p] = into_vec(fds[p], order)]
            /\ pc' = [pc EXCEPT ![p] = "save_lines"]
            /\ UNCHANGED <<open, result, stdout, events>>
       ELSE /\ Fail(p, release(open[p], "save"))
            /\ events' = Append(events, Event(p, "save_err"))
            /\ UNCHANGED <<file, pos, queue, writer>>
    /\ UNCHANGED <<file0, cmd, buffer, fds, loaded, target>>
    /\ UNCHANGED hvars

\* save_foods: one turn of the loop, file.write(line.as_bytes())?
SaveLine(p, ok) ==
    /\ pc[p] = "save_lines" /\ queue[p] # <<>>
    /\ IF ok
       THEN LET line == format_line(Head(queue[p]))
            IN  /\ writer' = p
                /\ file' = write_at(file, pos[p], line)
                /\ pos' = [pos EXCEPT ![p] = @ + Len(line)]
                /\ queue' = [queue EXCEPT ![p] = Tail(@)]
                /\ UNCHANGED <<pc, open, result, stdout, events>>
       ELSE /\ Fail(p, release(open[p], "save"))
            /\ events' = Append(events, Event(p, "save_err"))
            /\ UNCHANGED <<file, pos, queue, writer>>
    /\ UNCHANGED <<file0, cmd, buffer, fds, loaded, target>>
    /\ UNCHANGED hvars

\* save_foods: file.flush()?, Ok(()); the File is dropped on return.
SaveFlush(p) ==
    /\ pc[p] = "save_lines" /\ queue[p] = <<>>
    /\ open' = [open EXCEPT ![p] = release(@, "save")]
    /\ events' = Append(events, Event(p, "save_ok"))
    /\ pc' = [pc EXCEPT ![p] = "done"]
    /\ result' = [result EXCEPT ![p] = "ok"]
    /\ UNCHANGED <<file, file0, writer, cmd, pos, buffer, fds, loaded, target, queue,
                   stdout>>
    /\ UNCHANGED hvars

\* One invocation of run() on a data file, with I/O that may fail.
Init == InitRun({1}, Files)

Next ==
    \/ Start(1, Commands)
    \/ \E ok \in BOOLEAN : LoadOpen(1, ok)
    \/ \E ok \in BOOLEAN : LoadRead(1, ok)
    \/ LoadParse(1)
    \/ OpAdd(1)
    \/ OpEdit(1)
    \/ OpRemove(1)
    \/ OpList(1)
    \/ OpSearch(1)
    \/ \E ok \in BOOLEAN : SaveOpen(1, ok)
    \/ \E ok \in BOOLEAN : SaveHeader(1, ok)
    \/ \E ok \in BOOLEAN : SaveLine(1, ok)
    \/ SaveFlush(1)

Spec == Init /\ [][Next]_vars

\* Two invocations of `add` on the same file at once, each step of each one
\* atomic, with I/O that may fail.
ConcNames == { <<"a">>, <<"b", "b", "b">> }
ConcCommands == {Cmd("Add", 0, name, 0, 1, <<>>, FALSE) : name \in ConcNames}
ConcFiles ==
    { HEADER,
      HEADER \o <<"1", ",", "a", ",", "1", ",", "2", "\n">>,
      HEADER \o FmtInt(I64_MAX) \o <<",", "a", ",", "1", ",", "1", "\n">> }

InitConc == InitRun({1, 2}, ConcFiles)

NextConc ==
    \E p \in {1, 2} :
        \/ Start(p, ConcCommands)
        \/ \E ok \in BOOLEAN : LoadOpen(p, ok)
        \/ \E ok \in BOOLEAN : LoadRead(p, ok)
        \/ LoadParse(p)
        \/ OpAdd(p)
        \/ \E ok \in BOOLEAN : SaveOpen(p, ok)
        \/ \E ok \in BOOLEAN : SaveHeader(p, ok)
        \/ \E ok \in BOOLEAN : SaveLine(p, ok)
        \/ SaveFlush(p)

SpecConc == InitConc /\ [][NextConc]_vars

\* ------------------------------------------------------- claims on the codec
NonEmptyLines(t) ==
    LET ls == Split(t, NL) IN {i \in 1..Len(ls) : ls[i] # <<>>}

\* A line `id,name,stock,price`: integer id, stock and price, non-empty name.
ValidLine(l) ==
    LET f == Split(l, COMMA)
    IN  /\ Len(f) = 4
        /\ from_str_radix(f[1], I64_MIN, I64_MAX).ok
        /\ f[2] # <<>>
        /\ from_str_radix(f[3], I32_MIN, I32_MAX).ok
        /\ from_str_radix(f[4], I32_MIN, I32_MAX).ok

AllValidLines(t) ==
    \A i \in NonEmptyLines(t) : ValidLine(Split(t, NL)[i])

\* C1: for a text of valid lines only, parse_foods, save_foods and parse_foods
\* again give the store of the first parse (same ids, same fields), and the
\* written text holds the header plus one line per record of that store, so
\* the header contributes no record.
C1_RoundTrip ==
    (phase = "reparsed" /\ AllValidLines(input)) =>
        /\ reparsed = parsed
        /\ \A i \in NonEmptyLines(input) :
              parse_food(Split(input, NL)[i]).food.id \in DOMAIN reparsed
        /\ Len(Split(written, NL)) = Cardinality(DOMAIN parsed) + 2

\* C1 witness: two valid lines with different ids, the larger id first, have
\* gone through parse, save and parse.
C1_Witness ==
    /\ phase = "reparsed"
    /\ AllValidLines(input)
    /\ LET ls == Split(input, NL)
       IN  /\ Len(ls) >= 2
           /\ ls[1] # <<>> /\ ls[2] # <<>>
           /\ parse_food(ls[1]).food.id > parse_food(ls[2]).food.id
    /\ Cardinality(DOMAIN reparsed) = 2

\* The lines of t that parse_food accepts.
GoodLines(t) ==
    {i \in NonEmptyLines(t) : parse_food(Split(t, NL)[i]).ok}

\* C4: the store parse_foods returns holds, for every id some accepted line
\* carries, the record of the last such line, and nothing else, wherever the
\* rejected lines sit; verbose decides only the diagnostics, one per rejected
\* line with its 1-based line number, and not the store.
C4_SkipBadLines ==
    phase = "parsed" =>
        LET ls   == Split(input, NL)
            good == GoodLines(input)
            bad  == NonEmptyLines(input) \ good
        IN  /\ DOMAIN store = {parse_food(ls[i]).food.id : i \in good}
            /\ \A i \in good :
                  LET k == parse_food(ls[i]).food.id
                  IN  (\A j \in good : j > i => parse_food(ls[j]).food.id # k)
                          => store[k] = parse_food(ls[i]).food
            /\ store = parse_foods(input, ~hverbose).fds
            /\ IF hverbose
               THEN /\ Len(diag) = Cardinality(bad)
                    /\ \A j \in 1..Len(diag) :
                          /\ diag[j].num \in bad
                          /\ diag[j].line = ls[diag[j].num]
                          /\ j > 1 => diag[j - 1].num < diag[j].num
               ELSE diag = <<>>

\* C4 witness: a rejected line comes first, an accepted one after it, and the
\* parse has run with verbose set.
C4_Witness ==
    /\ phase = "parsed"
    /\ hverbose
    /\ LET ls == Split(input, NL)
       IN  /\ Len(ls) >= 2
           /\ 1 \in NonEmptyLines(input) \ GoodLines(input)
           /\ 2 \in GoodLines(input)
    /\ store # new
    /\ diag # <<>>

\* C5: parse_food gives a record only for a line of exactly 4 fields; a line
\* of fewer or of more than 4 fields gives none.
C5_ExactlyFourFields ==
    phase = "parsed" =>
        \A i \in NonEmptyLines(input) :
            LET l == Split(input, NL)[i]
            IN  Len(Split(l, COMMA)) # 4 => ~parse_food(l).ok

\* ------------------------------------------------------- claims on the store
\* C3 as stated: every id of the store is non-negative, is the key of its
\* record, and belongs to one record only.
C3_NonNegativeUnique ==
    /\ \A k \in DOMAIN store : k >= 0 /\ store[k].id = k
    /\ \A k1, k2 \in DOMAIN store : store[k1].id = store[k2].id => k1 = k2

\* The rest of C3, which holds: every record's id is the key it is stored
\* under, an i64, and no two records share an id.
IdsUnique ==
    /\ \A k \in DOMAIN store : store[k].id = k /\ k \in I64_MIN..I64_MAX
    /\ \A k1, k2 \in DOMAIN store : store[k1].id = store[k2].id => k1 = k2

\* C6: remove of an id the store lacks changes nothing and returns None;
\* remove of an id it holds deletes that record, returns it and leaves every
\* other record as it was.
C6_RemoveFrame ==
    lastop.kind = "remove" =>
        IF lastop.id \in DOMAIN lastop.before
        THEN /\ DOMAIN store = (DOMAIN lastop.before) \ {lastop.id}
             /\ \A k \in DOMAIN store : store[k] = lastop.before[k]
             /\ lastop.ret = <<lastop.before[lastop.id]>>
        ELSE /\ store = lastop.before
             /\ lastop.ret = <<>>

\* C6 witness: remove has run with an id missing from a non-empty store.
C6_Witness ==
    /\ lastop.kind = "remove"
    /\ lastop.id \notin DOMAIN lastop.before
    /\ lastop.before # new

\* The record with the i-th smallest key.
Nth(inner, i) ==
    inner[CHOOSE k \in DOMAIN inner :
              Cardinality({j \in DOMAIN inner : j < k}) = i - 1]

\* Line i of the text (without its newline) is the entry of record r.
IsEntryLine(l, r) ==
    l = FmtInt(r.id) \o <<COMMA>> \o r.name \o <<COMMA>> \o FmtInt(r.stock)
            \o <<COMMA>> \o FmtInt(r.price)

\* C7 as stated: the text begins with the header line and goes on with
\* exactly one line per record, in strictly ascending id order, whatever the
\* order of insertion; the empty store gives the header alone.
C7_HeaderThenOneLinePerRecord ==
    phase = "saved" =>
        LET ls == Split(written, NL)
            n  == Cardinality(DOMAIN store)
        IN  /\ SubSeq(written, 1, Len(HEADER)) = HEADER
            /\ Len(ls) = n + 2
            /\ ls[Len(ls)] = <<>>
            /\ \A i \in 1..n : IsEntryLine(ls[i + 1], Nth(store, i))

RECURSIVE Entries(_, _)
Entries(inner, i) ==
    IF i > Cardinality(DOMAIN inner) THEN <<>>
    ELSE LET r == Nth(inner, i)
         IN  FmtInt(r.id) \o <<COMMA>> \o r.name \o <<COMMA>> \o FmtInt(r.stock)
                 \o <<COMMA>> \o FmtInt(r.price) \o <<NL>> \o Entries(inner, i + 1)

NoNewlineInNames(inner) ==
    \A k \in DOMAIN inner :
        \A i \in 1..Len(inner[k].name) : inner[k].name[i] # NL

\* C7 amended: the text is the header line followed by exactly one entry
\* `id,name,stock,price\n` per record, in strictly ascending id order,
\* whatever the order of insertion; each entry is one line, so the text has
\* one line per record, when no name holds a newline.
C7_HeaderThenOneEntryPerRecord ==
    phase = "saved" =>
        /\ written = HEADER \o Entries(store, 1)
        /\ NoNewlineInNames(store) =>
              LET ls == Split(written, NL)
                  n  == Cardinality(DOMAIN store)
              IN  /\ Len(ls) = n + 2
                  /\ \A i \in 1..n : IsEntryLine(ls[i + 1], Nth(store, i))

\* C7 witness: the record inserted last has the smallest id of at least
\* three, and the store has been saved.
C7_Witness ==
    /\ phase = "saved"
    /\ lastop.kind = "edit"
    /\ lastop.id \notin DOMAIN lastop.before
    /\ Cardinality(DOMAIN store) >= 3
    /\ \A k \in DOMAIN lastop.before : lastop.id < k

\* ------------------------------------------------------------ claims on run()
Max(S) == CHOOSE x \in S : \A y \in S : y <= x

Count(p, ev) == Cardinality({i \in 1..Len(events) : events[i] = Event(p, ev)})

LoadedOk(p) == Count(p, "load_ok") > 0

Mutating == {"Add", "Edit", "Remove"}

DoneOk(p) == pc[p] = "done" /\ result[p] = "ok"

\* C2: once Add has acted on a loaded store, the store holds every loaded
\* record unchanged plus one new record with the given name, stock and price
\* under the id (largest loaded id) + 1, or 1 for an empty store, an id
\* greater than every loaded one; the file written is the header and the
\* entries of exactly these records.
C2_AddFreshId ==
    \A p \in DOMAIN pc :
        (cmd[p].kind = "Add" /\ LoadedOk(p) /\ pc[p] # "operate") =>
            /\ result[p] # "panic"
            /\ target[p] = IF loaded[p] = new THEN 1
                           ELSE Max(DOMAIN loaded[p]) + 1
            /\ \A k \in DOMAIN loaded[p] : target[p] > k /\ fds[p][k] = loaded[p][k]
            /\ DOMAIN fds[p] = (DOMAIN loaded[p]) \cup {target[p]}
            /\ fds[p][target[p]] =
                   Food(target[p], cmd[p].name, cmd[p].stock, cmd[p].price)
            /\ DoneOk(p) => file = HEADER \o Entries(fds[p], 1)

\* C8: an invocation calls load_foods at most once and save_foods at most
\* once; save_foods is called, and the file truncated, only after load_foods
\* returned Ok and only for Add, Edit and Remove; without a truncation the
\* file is what it was, so List, Search and a failed load leave it alone; the
\* handle of the load is released before the handle of the save is opened,
\* and at most one handle is open at any time.
C8_OneLoadOneSave ==
    \A p \in DOMAIN pc :
        /\ Count(p, "load_call") <= 1
        /\ Count(p, "save_call") <= 1
        /\ \A i \in 1..Len(events) :
              events[i] = Event(p, "save_call") =>
                  /\ \E j \in 1..(i - 1) : events[j] = Event(p, "load_ok")
                  /\ cmd[p].kind \in Mutating
        /\ \A i \in 1..Len(events) :
              events[i] = Event(p, "truncate") =>
                  i > 1 /\ events[i - 1] = Event(p, "save_call")
        /\ Count(p, "truncate") = 0 => file = file0
        /\ (cmd[p].kind \in {"List", "Search"} \/ Count(p, "load_err") > 0) =>
              Count(p, "save_call") = 0 /\ file = file0
        /\ Cardinality(open[p]) <= 1
        /\ pc[p] \in {"save_open", "save_header", "save_lines"} =>
              "load" \notin open[p]
        /\ pc[p] = "done" => open[p] = {}

\* C8 witness: an Add has loaded, truncated and saved, and the file differs
\* from what it was.
C8_Witness ==
    /\ DoneOk(1)
    /\ cmd[1].kind = "Add"
    /\ events = <<Event(1, "load_call"), Event(1, "load_ok"),
                  Event(1, "save_call"), Event(1, "truncate"),
                  Event(1, "save_ok")>>
    /\ file # file0

\* The records a file holds: what parse_foods makes of it.
Records(f) == parse_foods(f, FALSE).fds

HeaderLine == SubSeq(HEADER, 1, Len(HEADER) - 1)

\* The lines of the file as it was that load skipped, the header aside.
Skipped(f) ==
    {Split(f, NL)[i] : i \in NonEmptyLines(f) \ GoodLines(f)} \ {HeaderLine}

\* The records of the file differ from the loaded ones at the target id only.
SameElsewhere(p) ==
    LET now == Records(file)
    IN  \A k \in ((DOMAIN now) \cup (DOMAIN loaded[p])) \ {target[p]} :
            /\ k \in DOMAIN now
            /\ k \in DOMAIN loaded[p]
            /\ now[k] = loaded[p][k]

\* No line of the file is a line that load skipped.
NoSkippedLine ==
    \A j \in 1..Len(Split(file, NL)) : Split(file, NL)[j] \notin Skipped(file0)

\* C10 as stated, its first part: after a successful Add, Edit or Remove the
\* records of the file differ from the loaded records at no id but the one
\* the command targets.
C10_OnlyTargetDiffers ==
    \A p \in DOMAIN pc :
        (DoneOk(p) /\ cmd[p].kind \in Mutating) => SameElsewhere(p)

PlainName(name) ==
    name # <<>> /\ \A i \in 1..Len(name) : name[i] \notin {COMMA, NL}

\* C10 amended: for Remove, and for an Add or Edit whose name is not empty
\* and holds neither a comma nor a newline, the records of the file differ
\* from the loaded ones at the target id only, and no line skipped on load
\* is in the file.
C10_OnlyTargetDiffersPlainName ==
    \A p \in DOMAIN pc :
        (/\ DoneOk(p)
         /\ cmd[p].kind \in Mutating
         /\ cmd[p].kind = "Remove" \/ PlainName(cmd[p].name)) =>
            SameElsewhere(p) /\ NoSkippedLine

\* C10 witness: a Remove of an id the store lacks has saved a file that had a
\* skipped line and records.
C10_Witness ==
    /\ DoneOk(1)
    /\ cmd[1].kind = "Remove"
    /\ target[1] \notin DOMAIN loaded[1]
    /\ loaded[1] # new
    /\ Skipped(file0) # {}
    /\ Records(file) = loaded[1]
    /\ file # file0

\* ------------------------------------------------- claims on concurrent runs
Idx(p, ev) == CHOOSE i \in 1..Len(events) : events[i] = Event(p, ev)

BothSaved == DoneOk(1) /\ DoneOk(2)

\* Each invocation's load_foods returned before either save_foods was called.
LoadsBeforeSaves ==
    \A p, q \in {1, 2} : Idx(p, "load_ok") < Idx(q, "save_call")

\* One save_foods returned before the other was called.
SavesApart ==
    \E p, q \in {1, 2} : Idx(p, "save_ok") < Idx(q, "save_call")

\* No next_id overflowed: each new id is above every loaded one.
NoWrap == \A p \in {1, 2} : \A k \in DOMAIN loaded[p] : target[p] > k

====
